---- MODULE Spec2Model ----
(***************************************************************************)
(* Coverage attribution tools of EinStein-w-rfelt-nicht:                   *)
(*   tools/coverage_uncovered.py          (parse_annotated,                *)
(*       compress_ranges, extract_report_for_file, main)                   *)
(*   tools/map_uncovered_to_functions.py  (find_functions,                 *)
(*       map_uncovered_to_functions, compress_ranges, main)                *)
(*                                                                         *)
(* Text is modelled as a sequence of lexical atoms (one-character strings  *)
(* and a few multi-character atoms such as "if" or "::" standing for the   *)
(* substring they spell).  Python lists are sequences, Python dicts are    *)
(* sequences of <<key, value>> pairs in insertion order.                   *)
(***************************************************************************)
EXTENDS Integers, Sequences, FiniteSets, TLC

VARIABLES
    pc,               \* control point of the running tool
    lines,            \* compress_ranges: argument
    ranges,           \* compress_ranges: return value
    output,           \* parse_annotated: argument (llvm-cov show text)
    uncovered,        \* parse_annotated: return value
    source_lines,     \* find_functions: argument
    i,                \* find_functions: line cursor (0-based)
    funcs,            \* find_functions: spans recorded so far / return value
    uncovered_lines,  \* map_uncovered_to_functions: argument
    mapped,           \* map_uncovered_to_functions: first return value
    others,           \* map_uncovered_to_functions: second return value
    out_doc,          \* map tool main: the `out` document
    args,             \* coverage_uncovered main: parsed arguments
    profdata_exists,  \* coverage_uncovered main: os.path.exists(args.profdata)
    calls,            \* coverage_uncovered main: external commands run, with exit codes
    stdout,           \* coverage_uncovered main: what has been printed, in order
    ret,              \* coverage_uncovered main: exit code (-1 while running)
    wrapper_out,      \* get_uncovered: `out`, the captured output of the wrapper
    json_text,        \* get_uncovered: the text handed to json.loads
    loads_calls,      \* get_uncovered: number of json.loads calls made
    outcome,          \* get_uncovered: what it returned or raised
    rep_text,         \* extract_report_for_file: argument (llvm-cov report text)
    rep_filename,     \* extract_report_for_file: argument
    extracted         \* extract_report_for_file: return value

vars == <<pc, lines, ranges, output, uncovered, source_lines, i, funcs,
          uncovered_lines, mapped, others, out_doc, args, profdata_exists,
          calls, stdout, ret, wrapper_out, json_text, loads_calls, outcome,
          rep_text, rep_filename, extracted>>

rangeVars == <<lines, ranges>>
parseVars == <<output, uncovered>>
findVars  == <<source_lines, i, funcs>>
attrVars  == <<uncovered_lines, mapped, others, out_doc>>
covVars   == <<args, profdata_exists, calls, stdout, ret>>
guVars    == <<wrapper_out, json_text, loads_calls, outcome>>

\* get_uncovered has not been called.
NotCalled == [kind |-> "none", text |-> <<>>]
GuIdle ==
    wrapper_out = <<>> /\ json_text = <<>> /\ loads_calls = 0 /\ outcome = NotCalled

repVars == <<rep_text, rep_filename, extracted>>

\* extract_report_for_file has not been called.
NotExtracted == [found |-> FALSE, line |-> <<"-">>, pcts |-> <<>>]

RepIdle ==
    rep_text = <<>> /\ rep_filename = <<>> /\ extracted = NotExtracted

(***************************************************************************)
(* Bounds of the model.                                                    *)
(***************************************************************************)
MaxVal == 4          \* largest integer handed to compress_ranges
MaxLen == 4          \* longest list handed to compress_ranges

(***************************************************************************)
(* Generic helpers: Python built-ins used by the tools.                    *)
(***************************************************************************)
Elems(s) == {s[k] : k \in DOMAIN s}

RECURSIVE SeqsUpTo(_, _)
SeqsUpTo(S, n) ==
    IF n = 0 THEN {<<>>}
    ELSE LET shorter == SeqsUpTo(S, n - 1)
         IN  shorter \cup {Append(s, x) : s \in {t \in shorter : Len(t) = n - 1}, x \in S}

Min(S) == CHOOSE x \in S : \A y \in S : x <= y

\* sorted(xs): ascending, duplicates kept (insertion into a sorted prefix).
RECURSIVE insert_sorted(_, _)
insert_sorted(s, x) ==
    IF s = <<>> THEN <<x>>
    ELSE IF x < Head(s) THEN <<x>> \o s
    ELSE <<Head(s)>> \o insert_sorted(Tail(s), x)

RECURSIVE sorted(_)
sorted(xs) ==
    IF xs = <<>> THEN <<>>
    ELSE insert_sorted(sorted(SubSeq(xs, 1, Len(xs) - 1)), xs[Len(xs)])

\* Mutant of sorted_set: sorts but forgets set(), so duplicates survive.
sorted_keep_duplicates(xs) == sorted(xs)

\* sorted(set(xs)): ascending, duplicates removed.
RECURSIVE sorted_of_set(_)
sorted_of_set(S) ==
    IF S = {} THEN <<>>
    ELSE <<Min(S)>> \o sorted_of_set(S \ {Min(S)})

sorted_set(xs) == sorted_of_set(Elems(xs))

(***************************************************************************)
(* compress_ranges (coverage_uncovered.py:42-55, and the identical copy in *)
(* map_uncovered_to_functions.py:147-160).                                 *)
(***************************************************************************)
\* Mutant of compress_loop: a run that breaks keeps the old `start`.
RECURSIVE compress_loop_stale_start(_, _, _, _, _)
compress_loop_stale_start(ls, k, start, prev, acc) ==
    IF k > Len(ls) THEN Append(acc, <<start, prev>>)
    ELSE IF ls[k] = prev + 1
         THEN compress_loop_stale_start(ls, k + 1, start, ls[k], acc)
         ELSE compress_loop_stale_start(ls, k + 1, start, ls[k],
                                        Append(acc, <<start, prev>>))

\* The for loop over lines[1:], then the trailing append.
RECURSIVE compress_loop(_, _, _, _, _)
compress_loop(ls, k, start, prev, acc) ==
    IF k > Len(ls) THEN Append(acc, <<start, prev>>)
    ELSE IF ls[k] = prev + 1
         THEN compress_loop(ls, k + 1, start, ls[k], acc)
         ELSE compress_loop(ls, k + 1, ls[k], ls[k], Append(acc, <<start, prev>>))

compress_ranges(xs) ==
    IF xs = <<>> THEN <<>>
    ELSE LET ls == sorted_set(xs)
         IN  compress_loop(ls, 2, ls[1], ls[1], <<>>)

\* Inputs: every list of at most MaxLen integers of -1..MaxVal.
RangeInputs == SeqsUpTo((-1)..MaxVal, MaxLen)

InitRanges ==
    /\ pc = "compress_ranges"
    /\ lines \in RangeInputs
    /\ ranges = <<>>
    /\ output = <<>> /\ uncovered = <<>>
    /\ source_lines = <<>> /\ i = 0 /\ funcs = <<>>
    /\ uncovered_lines = <<>> /\ mapped = <<>> /\ others = <<>> /\ out_doc = <<>>
    /\ args = <<>> /\ profdata_exists = FALSE /\ calls = <<>> /\ stdout = <<>>
    /\ ret = -1
    /\ GuIdle
    /\ RepIdle

CompressRanges ==
    /\ pc = "compress_ranges"
    /\ ranges' = compress_ranges(lines)
    /\ pc' = "compress_ranges_done"
    /\ UNCHANGED <<lines, parseVars, findVars, attrVars, covVars, guVars, repVars>>

NextRanges == CompressRanges

SpecRanges == InitRanges /\ [][NextRanges]_vars

\* expand: the integer set a range list covers.
Expand(rs) == UNION {(rs[k][1])..(rs[k][2]) : k \in DOMAIN rs}

\* C4: expanding the ranges compress_ranges returns gives exactly set(lines);
\* nothing is lost, nothing outside the input is covered, and an empty input
\* gives an empty range list.
C4_ExpandIsInput ==
    pc = "compress_ranges_done" =>
        /\ Expand(ranges) = Elems(lines)
        /\ (lines = <<>> => ranges = <<>>)

\* C4 witness: an unsorted input with a duplicate and a gap was compressed
\* into several ranges, one of them longer than a single line.
C4_Witness ==
    /\ pc = "compress_ranges_done"
    /\ Len(ranges) >= 2
    /\ \E k \in DOMAIN ranges : ranges[k][1] < ranges[k][2]
    /\ \E a, b \in DOMAIN lines : a < b /\ lines[a] > lines[b]
    /\ \E a, b \in DOMAIN lines : a < b /\ lines[a] = lines[b]

\* C5: the returned ranges are ascending, each has start <= end, and
\* consecutive ranges neither overlap nor touch (next.start > prev.end + 1).
C5_RangesSortedNonAdjacent ==
    pc = "compress_ranges_done" =>
        /\ \A k \in DOMAIN ranges : ranges[k][1] <= ranges[k][2]
        /\ \A k \in DOMAIN ranges :
               k > 1 => ranges[k][1] > ranges[k - 1][2] + 1

\* C5 witness: an input with a repeated value and two values two apart gave
\* two ranges separated by exactly one missing integer.
C5_Witness ==
    /\ pc = "compress_ranges_done"
    /\ \E a, b \in DOMAIN lines : a < b /\ lines[a] = lines[b]
    /\ \E k \in DOMAIN ranges : k > 1 /\ ranges[k][1] = ranges[k - 1][2] + 2

(***************************************************************************)
(* parse_annotated (coverage_uncovered.py:25-40).                          *)
(* Atoms of llvm-cov show text: " " (whitespace), "0" "1" (ASCII digits),  *)
(* "u3" (a non-ASCII decimal digit such as U+0663, which \d matches and    *)
(* [0-9] does not, and int() reads as 3), "|", "x" (any other character)   *)
(* and "\n".                                                               *)
(***************************************************************************)
Whitespace  == {" "}
AsciiDigits == {"0", "1"}
Digits      == AsciiDigits \cup {"u3"}
CovChars    == Whitespace \cup Digits \cup {"|", "x", "\n"}

\* str.splitlines(): break at each "\n"; no empty last line.
RECURSIVE splitlines_from(_, _, _, _)
splitlines_from(text, k, cur, acc) ==
    IF k > Len(text) THEN (IF cur = <<>> THEN acc ELSE Append(acc, cur))
    ELSE IF text[k] = "\n" THEN splitlines_from(text, k + 1, <<>>, Append(acc, cur))
    ELSE splitlines_from(text, k + 1, Append(cur, text[k]), acc)

splitlines(text) == splitlines_from(text, 1, <<>>, <<>>)

\* The greedy scan of a character class: first index at or after k whose
\* atom is not in Class (Len(s) + 1 when the class runs to the end).
RECURSIVE skip(_, _, _)
skip(s, k, Class) ==
    IF k <= Len(s) /\ s[k] \in Class THEN skip(s, k + 1, Class) ELSE k

DigitVal(c) == CASE c = "0" -> 0 [] c = "1" -> 1 [] c = "u3" -> 3

\* int(s) on a string of decimal digits; -1 stands for ValueError.
RECURSIVE int_from(_, _, _)
int_from(s, k, acc) ==
    IF k > Len(s) THEN acc
    ELSE IF s[k] \notin Digits THEN -1
    ELSE int_from(s, k + 1, 10 * acc + DigitVal(s[k]))

int(s) == IF s = <<>> THEN -1 ELSE int_from(s, 1, 0)

\* line_rx.match(ln) for r"^\s*(\d+)\|\s*([0-9]+)?\|.*$".  Each greedy class
\* is followed by an atom outside the class, so the match is a single scan.
\* has_count = FALSE is group(2) = None.
NoMatch == [matched |-> FALSE, lineno |-> <<>>, has_count |-> FALSE, count |-> <<>>]

line_rx_match(ln) ==
    LET a == skip(ln, 1, Whitespace)
        b == skip(ln, a, Digits)
    IN  IF b = a \/ b > Len(ln) \/ ln[b] # "|" THEN NoMatch
        ELSE LET c == skip(ln, b + 1, Whitespace)
                 d == skip(ln, c, AsciiDigits)
             IN  IF d > Len(ln) \/ ln[d] # "|" THEN NoMatch
                 ELSE [matched   |-> TRUE,
                       lineno    |-> SubSeq(ln, a, b - 1),
                       has_count |-> d > c,
                       count     |-> SubSeq(ln, c, d - 1)]

\* Mutant of count_is_zero: compares the count as a number, so "00" counts.
count_is_zero_numeric(count) == int(count) = 0

\* count == '0'
count_is_zero(count) == count = <<"0">>

\* The for loop over output.splitlines().
RECURSIVE parse_loop(_, _, _)
parse_loop(ls, k, acc) ==
    IF k > Len(ls) THEN acc
    ELSE LET m == line_rx_match(ls[k])
         IN  IF ~m.matched THEN parse_loop(ls, k + 1, acc)
             ELSE IF ~m.has_count THEN parse_loop(ls, k + 1, acc)
             ELSE IF count_is_zero(m.count)
                  THEN parse_loop(ls, k + 1, Append(acc, int(m.lineno)))
                  ELSE parse_loop(ls, k + 1, acc)

parse_annotated(text) == parse_loop(splitlines(text), 1, <<>>)

\* Sample llvm-cov show texts longer than MaxTextLen: the three-line listing
\* of a covered, an uncovered and a non-instrumented line; a listing that
\* repeats a line number; a listing with a header and two uncovered lines.
RECURSIVE unlines(_)
unlines(ls) == IF ls = <<>> THEN <<>> ELSE Head(ls) \o <<"\n">> \o unlines(Tail(ls))

AnnotatedSamples ==
    { unlines(<< <<" ", "1", "|", " ", "1", "|", "x">>,
                 <<" ", "1", "0", "|", " ", "0", "|", "x">>,
                 <<" ", "1", "1", "|", " ", "|", "x">> >>),
      unlines(<< <<"1", "|", "0", "|">>, <<"1", "|", "0", "|">> >>),
      unlines(<< <<"x", "x">>, <<"1", "1", "|", "0", "|", "x">>, <<>>,
                 <<"1", "|", " ", "0", "|">>, <<"1", "0", "|", "1", "0", "|">> >>),
      unlines(<< <<"u3", "|", "0", "|">>, <<"1", "|", "0", "0", "|">>,
                 <<"1", "|", "0", " ", "|">> >>) }

MaxTextLen == 5      \* longest exhaustively enumerated llvm-cov show text

AnnotatedInputs == SeqsUpTo(CovChars, MaxTextLen) \cup AnnotatedSamples

InitParse ==
    /\ pc = "parse_annotated"
    /\ output \in AnnotatedInputs
    /\ uncovered = <<>>
    /\ lines = <<>> /\ ranges = <<>>
    /\ source_lines = <<>> /\ i = 0 /\ funcs = <<>>
    /\ uncovered_lines = <<>> /\ mapped = <<>> /\ others = <<>> /\ out_doc = <<>>
    /\ args = <<>> /\ profdata_exists = FALSE /\ calls = <<>> /\ stdout = <<>>
    /\ ret = -1
    /\ GuIdle
    /\ RepIdle

ParseAnnotated ==
    /\ pc = "parse_annotated"
    /\ uncovered' = parse_annotated(output)
    /\ pc' = "parse_annotated_done"
    /\ UNCHANGED <<output, rangeVars, findVars, attrVars, covVars, guVars, repVars>>

NextParse == ParseAnnotated

SpecParse == InitParse /\ [][NextParse]_vars

\* The shape "<ws>*<lineno>|<ws>*0|<text>" stated positionally: a atoms of
\* whitespace, digits up to position b, "|", whitespace up to position c,
\* then "0" and "|".
UncoveredShapeAt(ln, a, b, c) ==
    /\ a < b /\ b < c /\ c + 2 <= Len(ln)
    /\ \A m \in 1..a : ln[m] \in Whitespace
    /\ \A m \in (a + 1)..b : ln[m] \in Digits
    /\ ln[b + 1] = "|"
    /\ \A m \in (b + 2)..c : ln[m] \in Whitespace
    /\ ln[c + 1] = "0"
    /\ ln[c + 2] = "|"

UncoveredShape(ln) ==
    \E a \in 0..Len(ln), b \in 1..Len(ln), c \in 1..Len(ln) : UncoveredShapeAt(ln, a, b, c)

RECURSIVE Pow10(_)
Pow10(n) == IF n = 0 THEN 1 ELSE 10 * Pow10(n - 1)

RECURSIVE PlaceValueSum(_, _)
PlaceValueSum(ds, k) ==
    IF k > Len(ds) THEN 0
    ELSE DigitVal(ds[k]) * Pow10(Len(ds) - k) + PlaceValueSum(ds, k + 1)

\* The line number a line of the shape carries (place-value reading).
ShapeLineNumber(ln) ==
    LET ab == CHOOSE p \in (0..Len(ln)) \X (1..Len(ln)) :
                  \E c \in 1..Len(ln) : UncoveredShapeAt(ln, p[1], p[2], c)
    IN  PlaceValueSum(SubSeq(ln, ab[1] + 1, ab[2]), 1)

RECURSIVE ExpectedUncovered(_)
ExpectedUncovered(ls) ==
    IF ls = <<>> THEN <<>>
    ELSE (IF UncoveredShape(Head(ls)) THEN <<ShapeLineNumber(Head(ls))>> ELSE <<>>)
         \o ExpectedUncovered(Tail(ls))

NameChars  == {"f", "g", "if", "::"}
control_kw == {<<"if">>, <<"for">>, <<"while">>, <<"switch">>, <<"catch">>, <<"else">>}
LookAhead  == 6      \* range(i+1, min(i+6, n)): at most 5 following lines

\* str.strip()
RECURSIVE rstrip(_)
rstrip(s) ==
    IF s # <<>> /\ s[Len(s)] \in Whitespace THEN rstrip(SubSeq(s, 1, Len(s) - 1)) ELSE s

strip(s) == LET a == skip(s, 1, Whitespace) IN rstrip(SubSeq(s, a, Len(s)))

\* str.split(): the maximal runs of non-whitespace atoms, in order.
RECURSIVE split_from(_, _, _, _)
split_from(s, k, cur, acc) ==
    IF k > Len(s) THEN (IF cur = <<>> THEN acc ELSE Append(acc, cur))
    ELSE IF s[k] \in Whitespace
         THEN split_from(s, k + 1, <<>>, IF cur = <<>> THEN acc ELSE Append(acc, cur))
         ELSE split_from(s, k + 1, Append(cur, s[k]), acc)

split(s) == split_from(s, 1, <<>>, <<>>)

\* c in line
contains(line, c) == \E k \in DOMAIN line : line[k] = c

\* line.count(c)
count(line, c) == Cardinality({k \in DOMAIN line : line[k] = c})

\* stripped.startswith('#') or stripped.startswith('//')
is_comment(line) ==
    LET stripped == strip(line) IN stripped # <<>> /\ stripped[1] \in {"#", "//"}

\* stripped.endswith(';')
ends_with_semicolon(line) ==
    LET stripped == strip(line) IN stripped # <<>> /\ stripped[Len(stripped)] = ";"

\* '(' in line and ')' in line and not stripped.endswith(';')
is_candidate(line) ==
    contains(line, "(") /\ contains(line, ")") /\ ~ends_with_semicolon(line)

\* stripped.split()[0] if stripped.split() else ''
first_word(line) ==
    LET parts == split(strip(line)) IN IF parts = <<>> THEN <<>> ELSE parts[1]

\* The opening brace: this line, or the first of the following lines
\* i+1 .. min(i+6, n)-1 (0-based) that holds '{'; -1 is None.
find_brace_line(src, at) ==
    IF contains(src[at + 1], "{") THEN at
    ELSE LET n == Len(src)
             hi == IF at + LookAhead < n THEN at + LookAhead ELSE n
             js == {j \in (at + 1)..(hi - 1) : contains(src[j + 1], "{")}
         IN  IF js = {} THEN -1 ELSE Min(js)

\* sig_rx.search(line) for r"([\w:\~<>]+)\s*\(": the leftmost run of name
\* atoms that is followed, after optional whitespace, by "(".  Returns
\* group(1), or <<>> for no match (a match is never empty).
sig_rx_search(line) ==
    LET followed(p) == LET e == skip(line, p, NameChars)
                           q == skip(line, e, Whitespace)
                       IN  q <= Len(line) /\ line[q] = "("
        starts == {p \in DOMAIN line : line[p] \in NameChars /\ followed(p)}
    IN  IF starts = {} THEN <<>>
        ELSE SubSeq(line, Min(starts), skip(line, Min(starts), NameChars) - 1)

\* token.split('::')[-1]: the atoms after the last "::".
last_segment(token) ==
    LET seps == {k \in DOMAIN token : token[k] = "::"}
    IN  IF seps = {} THEN token
        ELSE SubSeq(token, (CHOOSE k \in seps : \A m \in seps : m <= k) + 1, Len(token))

\* line.split('(')[0]
before_paren(line) ==
    LET ps == {k \in DOMAIN line : line[k] = "("}
    IN  IF ps = {} THEN line ELSE SubSeq(line, 1, Min(ps) - 1)

\* Lines 86-96: the name of the candidate.
extract_name(line) ==
    LET token == sig_rx_search(line)
    IN  IF token # <<>> THEN last_segment(token)
        ELSE LET parts == split(strip(before_paren(line)))
             IN  IF parts = <<>> THEN <<"unknown">> ELSE parts[Len(parts)]

\* Mutant of match_braces_from: a depth below zero also closes the span.
RECURSIVE match_braces_until_nonpositive(_, _, _)
match_braces_until_nonpositive(src, k, brace_count) ==
    LET c == brace_count + count(src[k + 1], "{") - count(src[k + 1], "}")
    IN  IF c <= 0 \/ k + 1 >= Len(src) THEN k
        ELSE match_braces_until_nonpositive(src, k + 1, c)

\* Lines 99-106: the brace matching loop; returns end_line (0-based).
RECURSIVE match_braces_from(_, _, _)
match_braces_from(src, k, brace_count) ==
    LET c == brace_count + count(src[k + 1], "{") - count(src[k + 1], "}")
    IN  IF c = 0 \/ k + 1 >= Len(src) THEN k
        ELSE match_braces_from(src, k + 1, c)

match_braces(src, brace_line) == match_braces_from(src, brace_line, 0)

\* Mutant of make_span: body_start is left 0-based.
make_span_body_zero_based(fname, at, brace_line, end_line) ==
    [name |-> fname, start |-> at + 1, body_start |-> brace_line, end |-> end_line + 1]

\* Line 108: the recorded span, 1-based.
make_span(fname, at, brace_line, end_line) ==
    [name |-> fname, start |-> at + 1, body_start |-> brace_line + 1, end |-> end_line + 1]

\* Mutant of cursor_after_span: the cursor only moves to the next line.
cursor_next_line(at, end_line) == at + 1

\* Line 109: i = end_line + 1
cursor_after_span(at, end_line) == end_line + 1

\* Representative source lines.
SourceLineSet ==
    { <<"f", "(", ")", " ", "{">>,          \* f() {
      <<"f", "(", ")">>,                    \* f()          (brace on a later line)
      <<"{">>,
      <<"}">>,
      <<"g", "(", ")", "{", "}">>,          \* g(){}        (balanced on one line)
      <<"}", "}">>,                         \* }}           (closes more than it opens)
      <<" ", "g", "(", ")", ";", " ">>,     \* g();         (a statement)
      <<"if", " ", "(", ")", "{">>,         \* if () {
      <<" ", "//", "f", "(", ")", "{">>,    \* // f(){
      <<"g", "::", "f", " ", "(", ")", "{">>,  \* g::f () {
      <<"(", ")", "{">>,                    \* (){          (no name before the paren)
      <<>> }                                \* blank line

\* Lines for the look-ahead window: a signature without brace, a blank line,
\* an opening and a closing brace.
WindowLineSet == { <<"f", "(", ")">>, <<>>, <<"{">>, <<"}">> }

MaxSrcLines    == 3  \* longest source over SourceLineSet
MaxWindowLines == 7  \* longest source over WindowLineSet (window of 5 lines + 2)

SourceInputs ==
    SeqsUpTo(SourceLineSet, MaxSrcLines) \cup SeqsUpTo(WindowLineSet, MaxWindowLines)

InitFind ==
    /\ pc = "find_functions"
    /\ source_lines \in SourceInputs
    /\ i = 0
    /\ funcs = <<>>
    /\ lines = <<>> /\ ranges = <<>>
    /\ output = <<>> /\ uncovered = <<>>
    /\ uncovered_lines = <<>> /\ mapped = <<>> /\ others = <<>> /\ out_doc = <<>>
    /\ args = <<>> /\ profdata_exists = FALSE /\ calls = <<>> /\ stdout = <<>>
    /\ ret = -1
    /\ GuIdle
    /\ RepIdle

\* Lines 62-64: a preprocessor line or a // comment is skipped.
SkipComment ==
    /\ pc = "find_functions" /\ i < Len(source_lines)
    /\ is_comment(source_lines[i + 1])
    /\ i' = i + 1
    /\ UNCHANGED <<pc, source_lines, funcs, rangeVars, parseVars, attrVars, covVars,
                   guVars, repVars>>

\* Lines 66-71: a candidate whose first word is a control keyword is skipped.
SkipControl ==
    /\ pc = "find_functions" /\ i < Len(source_lines)
    /\ ~is_comment(source_lines[i + 1])
    /\ is_candidate(source_lines[i + 1])
    /\ first_word(source_lines[i + 1]) \in control_kw
    /\ i' = i + 1
    /\ UNCHANGED <<pc, source_lines, funcs, rangeVars, parseVars, attrVars, covVars,
                   guVars, repVars>>

\* Lines 73-110: a candidate with an opening brace is recorded and the
\* cursor moves past its end.
RecordFunction ==
    /\ pc = "find_functions" /\ i < Len(source_lines)
    /\ ~is_comment(source_lines[i + 1])
    /\ is_candidate(source_lines[i + 1])
    /\ first_word(source_lines[i + 1]) \notin control_kw
    /\ LET brace_line == find_brace_line(source_lines, i)
       IN  /\ brace_line # -1
           /\ LET end_line == match_braces(source_lines, brace_line)
              IN  /\ funcs' = Append(funcs, make_span(extract_name(source_lines[i + 1]),
                                                      i, brace_line, end_line))
                  /\ i' = cursor_after_span(i, end_line)
    /\ UNCHANGED <<pc, source_lines, rangeVars, parseVars, attrVars, covVars, guVars, repVars>>

\* Lines 84, 112: a candidate with no '{' in the window is dropped.
NoBraceInWindow ==
    /\ pc = "find_functions" /\ i < Len(source_lines)
    /\ ~is_comment(source_lines[i + 1])
    /\ is_candidate(source_lines[i + 1])
    /\ first_word(source_lines[i + 1]) \notin control_kw
    /\ find_brace_line(source_lines, i) = -1
    /\ i' = i + 1
    /\ UNCHANGED <<pc, source_lines, funcs, rangeVars, parseVars, attrVars, covVars,
                   guVars, repVars>>

\* Lines 66, 112: a line that is no candidate signature.
NotASignature ==
    /\ pc = "find_functions" /\ i < Len(source_lines)
    /\ ~is_comment(source_lines[i + 1])
    /\ ~is_candidate(source_lines[i + 1])
    /\ i' = i + 1
    /\ UNCHANGED <<pc, source_lines, funcs, rangeVars, parseVars, attrVars, covVars,
                   guVars, repVars>>

\* Lines 58, 114: the while loop ends and funcs is returned.
ReturnFuncs ==
    /\ pc = "find_functions" /\ i >= Len(source_lines)
    /\ pc' = "find_functions_done"
    /\ UNCHANGED <<source_lines, i, funcs, rangeVars, parseVars, attrVars, covVars,
                   guVars, repVars>>

NextFind ==
    \/ SkipComment
    \/ SkipControl
    \/ RecordFunction
    \/ NoBraceInWindow
    \/ NotASignature
    \/ ReturnFuncs

SpecFind == InitFind /\ [][NextFind]_vars

InFindFunctions == pc \in {"find_functions", "find_functions_done"}

\* C7: the spans of find_functions are in source order and pairwise
\* non-overlapping: each span starts strictly after the end of the span
\* recorded before it, and the cursor never stands inside a recorded span,
\* so no line of a recorded span is examined again as a candidate.
C7_SpansOrderedDisjoint ==
    InFindFunctions =>
        /\ \A k \in DOMAIN funcs : k > 1 => funcs[k].start > funcs[k - 1].end
        /\ (funcs # <<>> => i >= funcs[Len(funcs)].end)

\* C7 witness: two spans were returned, and the first one spans several
\* lines one of which (after its first) looks like a function signature
\* with a brace.
C7_Witness ==
    /\ pc = "find_functions_done"
    /\ Len(funcs) >= 2
    /\ \E m \in (funcs[1].start + 1)..funcs[1].end :
           /\ is_candidate(source_lines[m])
           /\ ~is_comment(source_lines[m])
           /\ first_word(source_lines[m]) \notin control_kw
           /\ contains(source_lines[m], "{")

\* C8: every span satisfies 1 <= start <= body_start <= end <= number of
\* source lines.
C8_SpanBounds ==
    InFindFunctions =>
        \A k \in DOMAIN funcs :
            /\ 1 <= funcs[k].start
            /\ funcs[k].start <= funcs[k].body_start
            /\ funcs[k].body_start <= funcs[k].end
            /\ funcs[k].end <= Len(source_lines)

\* Net brace depth of lines a..b (1-based, inclusive).
RECURSIVE NetDepth(_, _, _)
NetDepth(src, a, b) ==
    IF a > b THEN 0
    ELSE count(src[a], "{") - count(src[a], "}") + NetDepth(src, a + 1, b)

\* C8 witness: a span whose opening brace was found in the look-ahead
\* window, whose braces never balance, and one of whose lines closes more
\* braces than it opens; it ends at the last line of the source.
C8_Witness ==
    /\ pc = "find_functions_done"
    /\ \E k \in DOMAIN funcs :
           /\ funcs[k].body_start > funcs[k].start
           /\ funcs[k].end = Len(source_lines)
           /\ NetDepth(source_lines, funcs[k].body_start, funcs[k].end) # 0
           /\ \E m \in funcs[k].body_start..funcs[k].end :
                  count(source_lines[m], "}") > count(source_lines[m], "{")

\* C14: the end of every span is the first line at or after body_start at
\* which the brace depth accumulated from body_start through that line is
\* zero, or the last line of the source when there is no such line; a
\* candidate line that holds its opening brace and as many "}" as "{" gives
\* start = body_start = end.
C14_EndAtFirstZeroDepth ==
    InFindFunctions =>
        \A k \in DOMAIN funcs :
            LET sp     == funcs[k]
                closed == {m \in sp.body_start..Len(source_lines) :
                              NetDepth(source_lines, sp.body_start, m) = 0}
            IN  /\ sp.end = (IF closed = {} THEN Len(source_lines) ELSE Min(closed))
                /\ (/\ contains(source_lines[sp.start], "{")
                    /\ count(source_lines[sp.start], "{")
                           = count(source_lines[sp.start], "}"))
                       => (sp.start = sp.body_start /\ sp.body_start = sp.end)

\* C14 witness: one span closes on a later line that is not the last, and
\* another is a balanced one-line function.
C14_Witness ==
    /\ pc = "find_functions_done"
    /\ \E k \in DOMAIN funcs :
           /\ funcs[k].end > funcs[k].body_start
           /\ funcs[k].end < Len(source_lines)
           /\ NetDepth(source_lines, funcs[k].body_start, funcs[k].end) = 0
    /\ \E k \in DOMAIN funcs :
           /\ funcs[k].start = funcs[k].end
           /\ count(source_lines[funcs[k].start], "{") > 0
           /\ count(source_lines[funcs[k].start], "{")
                  = count(source_lines[funcs[k].start], "}")

(***************************************************************************)
(* map_uncovered_to_functions and the document built by main               *)
(* (map_uncovered_to_functions.py:116-145, 174-185).                       *)
(* func_map is a Python dict: a sequence of entries in insertion order,    *)
(* each entry carrying its key in the field name.                          *)
(***************************************************************************)
\* Position of key in the dict, 0 when absent.
dict_index(d, key) ==
    LET ks == {k \in DOMAIN d : d[k].name = key} IN IF ks = {} THEN 0 ELSE Min(ks)

\* d[key] = value: a present key keeps its position and gets the new value.
dict_set(d, key, value) ==
    IF dict_index(d, key) = 0 THEN Append(d, value)
    ELSE [d EXCEPT ![dict_index(d, key)] = value]

\* Lines 118-120: func_map[f['name']] = {start, end, uncovered_lines: []}
RECURSIVE build_func_map(_, _, _)
build_func_map(fs, k, func_map) ==
    IF k > Len(fs) THEN func_map
    ELSE build_func_map(fs, k + 1,
             dict_set(func_map, fs[k].name,
                      [name |-> fs[k].name, start |-> fs[k].start,
                       end |-> fs[k].end, uncovered_lines |-> <<>>]))

\* Lines 125-129: index of the first span containing ln, 0 when none.
first_match(ln, fs) ==
    LET ms == {k \in DOMAIN fs : ln >= fs[k].start /\ ln <= fs[k].end}
    IN  IF ms = {} THEN 0 ELSE Min(ms)

\* Line 127: func_map[f['name']]['uncovered_lines'].append(ln)
dict_append_line(func_map, key, ln) ==
    [func_map EXCEPT ![dict_index(func_map, key)].uncovered_lines = Append(@, ln)]

\* Mutant of others_after: `matched` is never set, so a line attributed to
\* a function is appended to others as well.
others_after_matched_unset(os, ln, matched) == Append(os, ln)

\* Lines 130-131: if not matched: others.append(ln)
others_after(os, ln, matched) == IF matched THEN os ELSE Append(os, ln)

\* Lines 122-131: the loop over uncovered_lines; returns <<func_map, others>>.
RECURSIVE attribute_loop(_, _, _, _, _)
attribute_loop(uls, k, fs, func_map, os) ==
    IF k > Len(uls) THEN <<func_map, os>>
    ELSE LET ln == uls[k]
             m  == first_match(ln, fs)
         IN  attribute_loop(uls, k + 1, fs,
                 IF m # 0 THEN dict_append_line(func_map, fs[m].name, ln) ELSE func_map,
                 others_after(os, ln, m # 0))

\* Lines 134-143: one result entry per func_map item, lines sorted.
convert_entry(e) ==
    [name |-> e.name, start |-> e.start, end |-> e.end,
     uncovered_count |-> Len(sorted(e.uncovered_lines)),
     uncovered_lines |-> sorted(e.uncovered_lines)]

\* Returns <<result, sorted(others)>>.
map_uncovered_to_functions(uls, fs) ==
    LET r == attribute_loop(uls, 1, fs, build_func_map(fs, 1, <<>>), <<>>)
    IN  << [k \in DOMAIN r[1] |-> convert_entry(r[1][k])], sorted(r[2]) >>

\* Line 178: sorted(mapped, key=uncovered_count, reverse=True); stable.
RECURSIVE insert_by_count_desc(_, _)
insert_by_count_desc(s, e) ==
    IF s = <<>> THEN <<e>>
    ELSE IF e.uncovered_count > Head(s).uncovered_count THEN <<e>> \o s
    ELSE <<Head(s)>> \o insert_by_count_desc(Tail(s), e)

RECURSIVE sorted_by_count_desc(_)
sorted_by_count_desc(es) ==
    IF es = <<>> THEN <<>>
    ELSE insert_by_count_desc(sorted_by_count_desc(SubSeq(es, 1, Len(es) - 1)), es[Len(es)])

MaxLineNo    == 3    \* number of lines of the attributed source file
MaxFuncs     == 2    \* most spans in a span list
MaxUncovered == 2    \* longest list of uncovered lines

\* Names find_functions extracts; two signatures can yield the same name.
FuncNames == {<<"f">>, <<"g">>}

\* A span as find_functions records it (line 108).
Spans ==
    {[name |-> nm, start |-> a, body_start |-> b, end |-> c] :
        nm \in FuncNames,
        a \in 1..MaxLineNo, b \in 1..MaxLineNo, c \in 1..MaxLineNo}

\* The span lists find_functions can return: bounds in order, spans in
\* source order and disjoint.
FuncLists ==
    {fs \in SeqsUpTo({sp \in Spans : sp.start <= sp.body_start /\ sp.body_start <= sp.end},
                     MaxFuncs) :
        \A k \in DOMAIN fs : k > 1 => fs[k].start > fs[k - 1].end}

InitAttr ==
    /\ pc = "map_uncovered_to_functions"
    /\ funcs \in FuncLists
    /\ uncovered_lines \in SeqsUpTo(1..MaxLineNo, MaxUncovered)
    /\ mapped = <<>> /\ others = <<>> /\ out_doc = <<>>
    /\ lines = <<>> /\ ranges = <<>>
    /\ output = <<>> /\ uncovered = <<>>
    /\ source_lines = <<>> /\ i = 0
    /\ args = <<>> /\ profdata_exists = FALSE /\ calls = <<>> /\ stdout = <<>>
    /\ ret = -1
    /\ GuIdle
    /\ RepIdle

\* Line 175: mapped, others = map_uncovered_to_functions(uncovered_lines, funcs)
MapUncoveredToFunctions ==
    /\ pc = "map_uncovered_to_functions"
    /\ mapped' = map_uncovered_to_functions(uncovered_lines, funcs)[1]
    /\ others' = map_uncovered_to_functions(uncovered_lines, funcs)[2]
    /\ pc' = "mapped"
    /\ UNCHANGED <<uncovered_lines, out_doc, rangeVars, parseVars, findVars, covVars,
                   guVars, repVars>>

\* Lines 178-185: the output document.
BuildOut ==
    /\ pc = "mapped"
    /\ out_doc' = [total_uncovered_lines  |-> Len(uncovered_lines),
                   functions              |-> sorted_by_count_desc(mapped),
                   others_uncovered_lines |-> others]
    /\ pc' = "map_main_done"
    /\ UNCHANGED <<uncovered_lines, mapped, others, rangeVars, parseVars, findVars, covVars,
                   guVars, repVars>>

NextAttr == MapUncoveredToFunctions \/ BuildOut

SpecAttr == InitAttr /\ [][NextAttr]_vars

RECURSIVE SumCounts(_)
SumCounts(es) == IF es = <<>> THEN 0 ELSE Head(es).uncovered_count + SumCounts(Tail(es))

\* Number of positions of list s that hold x.
Occurrences(s, x) == Cardinality({k \in DOMAIN s : s[k] = x})

RECURSIVE SumOccurrences(_, _)
SumOccurrences(es, x) ==
    IF es = <<>> THEN 0
    ELSE Occurrences(Head(es).uncovered_lines, x) + SumOccurrences(Tail(es), x)

\* C1: every input line lands in exactly one bucket: each line number occurs
\* in the function lists and the unattributed list together as often as in
\* the input, so the per-function uncovered_count values plus the length of
\* the unattributed list add up to total_uncovered_lines.
C1_EveryLineInOneBucket ==
    /\ pc \in {"mapped", "map_main_done"} =>
           /\ \A x \in 1..MaxLineNo :
                  SumOccurrences(mapped, x) + Occurrences(others, x)
                      = Occurrences(uncovered_lines, x)
           /\ SumCounts(mapped) + Len(others) = Len(uncovered_lines)
    /\ pc = "map_main_done" =>
           SumCounts(out_doc.functions) + Len(out_doc.others_uncovered_lines)
               = out_doc.total_uncovered_lines

\* C1 witness: the document was built for an input in which one line fell
\* inside a function and another outside every span.
C1_Witness ==
    /\ pc = "map_main_done"
    /\ out_doc.total_uncovered_lines >= 2
    /\ out_doc.others_uncovered_lines # <<>>
    /\ \E k \in DOMAIN out_doc.functions : out_doc.functions[k].uncovered_count >= 1

\* C2 (as claimed): one result entry per span, each with the name and the
\* start/end bounds of its own span.
C2_OneEntryPerSpan ==
    pc \in {"mapped", "map_main_done"} =>
        /\ Len(mapped) = Len(funcs)
        /\ \A k \in DOMAIN funcs :
               k <= Len(mapped) =>
                   /\ mapped[k].name = funcs[k].name
                   /\ mapped[k].start = funcs[k].start
                   /\ mapped[k].end = funcs[k].end

\* The result entries that report span k (name and bounds).
EntriesOfSpan(k) ==
    {e \in DOMAIN mapped :
        /\ mapped[e].name = funcs[k].name
        /\ mapped[e].start = funcs[k].start
        /\ mapped[e].end = funcs[k].end}

\* The result entries whose uncovered_lines hold ln.
EntriesHolding(ln) == {e \in DOMAIN mapped : ln \in Elems(mapped[e].uncovered_lines)}

\* C3 (as claimed): each uncovered line is reported under the first span
\* whose [start, end] contains it and under no other span; a line no span
\* contains is in the unattributed list and under no span.
C3_FirstContainingSpan ==
    pc \in {"mapped", "map_main_done"} =>
        \A p \in DOMAIN uncovered_lines :
            LET ln == uncovered_lines[p]
                ms == {k \in DOMAIN funcs : funcs[k].start <= ln /\ ln <= funcs[k].end}
            IN  IF ms = {}
                THEN ln \in Elems(others) /\ EntriesHolding(ln) = {}
                ELSE /\ ln \notin Elems(others)
                     /\ EntriesHolding(ln) # {}
                     /\ EntriesHolding(ln) \subseteq EntriesOfSpan(Min(ms))

\* C15: every line number in a result entry's uncovered_lines lies within
\* that entry's own reported bounds start..end.
C15_LinesWithinEntryBounds ==
    pc \in {"mapped", "map_main_done"} =>
        \A k \in DOMAIN mapped :
            \A m \in DOMAIN mapped[k].uncovered_lines :
                /\ mapped[k].start <= mapped[k].uncovered_lines[m]
                /\ mapped[k].uncovered_lines[m] <= mapped[k].end

(***************************************************************************)
(* extract_report_for_file (coverage_uncovered.py:57-70).                  *)
(* Atoms of llvm-cov report text: "a" "b" (file name characters), " ",     *)
(* digits, ".", "%" and "\n".                                              *)
(***************************************************************************)
\* filename in line: filename occurs as a contiguous run of line.
is_substring(needle, line) ==
    \E p \in 1..(Len(line) - Len(needle) + 1) :
        SubSeq(line, p, p + Len(needle) - 1) = needle

\* pct_rx.findall(line) for r"(\d+\.\d+)%": scan from the left; a match at p
\* is digits, ".", digits, "%"; the scan resumes after a match.
RECURSIVE pct_findall_from(_, _, _)
pct_findall_from(line, p, acc) ==
    IF p > Len(line) THEN acc
    ELSE LET d1 == skip(line, p, Digits)
             d2 == skip(line, d1 + 1, Digits)
         IN  IF /\ d1 > p
                /\ d1 <= Len(line) /\ line[d1] = "."
                /\ d2 > d1 + 1
                /\ d2 <= Len(line) /\ line[d2] = "%"
             THEN pct_findall_from(line, d2 + 1, Append(acc, SubSeq(line, p, d2 - 1)))
             ELSE pct_findall_from(line, p + 1, acc)

pct_findall(line) == pct_findall_from(line, 1, <<>>)

\* Mutant of extract_from: the last matching line wins.
RECURSIVE extract_last_from(_, _, _)
extract_last_from(ls, k, filename) ==
    LET hits == {m \in k..Len(ls) : is_substring(filename, ls[m])}
    IN  IF hits = {} THEN [found |-> FALSE, line |-> <<>>, pcts |-> <<>>]
        ELSE LET m == CHOOSE m \in hits : \A n \in hits : n <= m
             IN  [found |-> TRUE, line |-> ls[m], pcts |-> pct_findall(ls[m])]

\* Returns [found, line, pcts]; found = FALSE is the (None, []) result.
RECURSIVE extract_from(_, _, _)
extract_from(ls, k, filename) ==
    IF k > Len(ls) THEN [found |-> FALSE, line |-> <<>>, pcts |-> <<>>]
    ELSE IF is_substring(filename, ls[k])
         THEN [found |-> TRUE, line |-> ls[k], pcts |-> pct_findall(ls[k])]
         ELSE extract_from(ls, k + 1, filename)

extract_report_for_file(report_output, filename) ==
    extract_from(splitlines(report_output), 1, filename)

(***************************************************************************)
(* main of coverage_uncovered.py (lines 73-206).  run() prints the command *)
(* and returns the exit code and the captured output of the external       *)
(* llvm-cov process; both are chosen by the environment.  Lines 120-132    *)
(* repeat the test of line 116 and are never reached.                      *)
(***************************************************************************)
ExitCodes == {0, 1}

\* What llvm-cov show can print on success.
ShowOutputs == AnnotatedSamples \cup {<<>>, <<"1", "|", "1", "|", "\n">>}

\* What a failing llvm-cov prints.
ErrorOutputs == {<<"x">>, <<>>}

\* What llvm-cov report can print.
ReportOutputs ==
    { <<"a", " ", "1", "0", ".", "0", "%", " ", "1", ".", "1", "%", "\n">>,
      <<"x", "\n", "b", "a", " ", "0", ".", "0", "%", "\n", "a", " ", "1", ".", "0", "%", "\n">>,
      <<"b", " ", "1", "%", "\n">>,
      <<>> }

FileNames == {<<"a">>, <<"b", "a">>}

InitCov ==
    /\ pc = "main"
    /\ args \in [file : FileNames, json : BOOLEAN]
    /\ profdata_exists \in BOOLEAN
    /\ calls = <<>>
    /\ stdout = <<>>
    /\ ret = -1
    /\ lines = <<>> /\ ranges = <<>>
    /\ output = <<>> /\ uncovered = <<>>
    /\ source_lines = <<>> /\ i = 0 /\ funcs = <<>>
    /\ uncovered_lines = <<>> /\ mapped = <<>> /\ others = <<>> /\ out_doc = <<>>
    /\ GuIdle
    /\ RepIdle

\* print(...) of one piece of human-readable text.
prose(what) == [kind |-> "prose", text |-> what]

\* run(cmd), line 20: print(f"> {cmd}")
echo(cmd) == [kind |-> "echo", text |-> cmd]

\* Lines 137-151 and 161-174: the coverage summary.
summary_prints(uls, rs) ==
    <<prose("Coverage summary for")>>
    \o (IF uls = <<>> THEN <<prose("All instrumented lines appear covered")>>
        ELSE <<[kind |-> "prose", text |-> "Total uncovered lines", total |-> Len(uls)],
               [kind |-> "prose", text |-> "Uncovered ranges", ranges |-> rs]>>)

\* Lines 184-190 and 195-201: the report line.
report_prints(rep) ==
    <<prose("llvm-cov report line for file")>>
    \o (IF rep.found /\ rep.line # <<>>
        THEN <<[kind |-> "prose", text |-> "rep_line", line |-> rep.line]>>
             \o (IF rep.pcts # <<>>
                 THEN <<[kind |-> "prose", text |-> "Detected percent values",
                         pcts |-> rep.pcts]>>
                 ELSE <<>>)
        ELSE <<prose("No report line found for file")>>)

\* Lines 101-106: the merged profile is missing.
ProfdataMissing ==
    /\ pc = "main"
    /\ ~profdata_exists
    /\ stdout' = Append(stdout, prose("profdata not found"))
    /\ ret' = 2
    /\ pc' = "exit"
    /\ UNCHANGED <<args, profdata_exists, calls, rangeVars, parseVars, findVars, attrVars,
                   guVars, repVars>>

\* Lines 109-119: llvm-cov show exits non-zero.
ShowFails ==
    /\ pc = "main"
    /\ profdata_exists
    /\ \E code \in ExitCodes \ {0}, out \in ErrorOutputs :
           /\ calls' = Append(calls, [cmd |-> "show", code |-> code])
           /\ output' = out
           /\ stdout' = stdout \o <<echo("show"), prose("llvm-cov show failed"),
                                    [kind |-> "captured", text |-> "out", out |-> out]>>
    /\ ret' = 3
    /\ pc' = "exit"
    /\ UNCHANGED <<args, profdata_exists, uncovered, rangeVars, findVars, attrVars,
                   guVars, repVars>>

\* Lines 109-174: llvm-cov show exits 0; the text is parsed, compressed and
\* summarised.
ShowSucceeds ==
    /\ pc = "main"
    /\ profdata_exists
    /\ \E out \in ShowOutputs :
           /\ calls' = Append(calls, [cmd |-> "show", code |-> 0])
           /\ output' = out
           /\ uncovered_lines' = parse_annotated(out)
           /\ ranges' = compress_ranges(parse_annotated(out))
    /\ stdout' = stdout \o <<echo("show")>>
                     \o summary_prints(uncovered_lines', ranges')
                     \o (IF args.json THEN <<>>
                         ELSE summary_prints(uncovered_lines', ranges'))
    /\ pc' = "report"
    /\ UNCHANGED <<args, profdata_exists, ret, lines, uncovered, findVars,
                   mapped, others, out_doc, guVars, repVars>>

\* Lines 154-159, 191-192: the structured result.
result_doc(file, uls, rs, rep) ==
    [file |-> file, total_uncovered_lines |-> Len(uls), uncovered_ranges |-> rs,
     uncovered_lines |-> uls, report_found |-> rep.found, report_line |-> rep.line,
     report_percentages |-> rep.pcts]

\* Lines 176-206: llvm-cov report is run, its exit code is dropped, the row
\* of the file is looked up and printed, and main returns 0.
RunReport ==
    /\ pc = "report"
    /\ \E code \in ExitCodes :
       \E report_out \in (IF code = 0 THEN ReportOutputs ELSE ErrorOutputs) :
           LET rep == extract_report_for_file(report_out, args.file)
           IN  /\ calls' = Append(calls, [cmd |-> "report", code |-> code])
               /\ stdout' = stdout \o <<echo("report")>> \o report_prints(rep)
                      \o (IF ~args.json THEN report_prints(rep)
                          ELSE << [kind |-> "json",
                                   doc  |-> result_doc(args.file, uncovered_lines,
                                                       ranges, rep)] >>)
    /\ ret' = 0
    /\ pc' = "exit"
    /\ UNCHANGED <<args, profdata_exists, rangeVars, parseVars, findVars, attrVars,
                   guVars, repVars>>

NextCov == ProfdataMissing \/ ShowFails \/ ShowSucceeds \/ RunReport

SpecCov == InitCov /\ [][NextCov]_vars

\* C9 (as claimed): in --json mode, once llvm-cov has been run, the only
\* thing on the output channel at exit is the JSON document.
C9_JsonModeOnlyJson ==
    (pc = "exit" /\ args.json /\ calls # <<>>) =>
        /\ Len(stdout) = 1
        /\ stdout[1].kind = "json"

\* C10 (as claimed): main returns 0 only if the profile exists and every
\* llvm-cov invocation exited 0, returns non-zero if the profile is missing
\* or an invocation failed, and runs no command when the profile is missing.
C10_ExitCodeReflectsFailures ==
    pc = "exit" =>
        /\ ret = 0 => (profdata_exists /\ \A k \in DOMAIN calls : calls[k].code = 0)
        /\ (~profdata_exists \/ \E k \in DOMAIN calls : calls[k].code # 0) => ret # 0
        /\ ~profdata_exists => calls = <<>>

(***************************************************************************)
(* get_uncovered (map_uncovered_to_functions.py:23-47).                    *)
(* Atoms of the wrapper's output: "{", "}", "q" (a double quote), ":",     *)
(* ",", "1" (a digit), " " (whitespace) and "x" (any other character).     *)
(* json.loads is modelled on the JSON subset of objects, strings without   *)
(* escapes and unsigned integers.  The exit code of the wrapper is never   *)
(* read by get_uncovered.                                                  *)
(***************************************************************************)
\* A JSON string starting at p: position after its closing quote, 0 if none.
json_string(s, p) ==
    IF p > Len(s) \/ s[p] # "q" THEN 0
    ELSE LET closers == {e \in (p + 1)..Len(s) : s[e] = "q"}
         IN  IF closers = {} THEN 0 ELSE Min(closers) + 1

\* A JSON value starting at p: position after it, 0 when there is none.
RECURSIVE json_value(_, _)
RECURSIVE json_members(_, _)
json_value(s, p) ==
    IF p > Len(s) THEN 0
    ELSE IF s[p] = "q" THEN json_string(s, p)
    ELSE IF s[p] = "1" THEN skip(s, p, {"1"})
    ELSE IF s[p] = "{"
         THEN LET a == skip(s, p + 1, Whitespace)
              IN  IF a <= Len(s) /\ s[a] = "}" THEN a + 1 ELSE json_members(s, a)
    ELSE 0

\* "key": value pairs separated by commas, up to the closing brace.
json_members(s, p) ==
    LET k == json_string(s, p)
        c == skip(s, k, Whitespace)
    IN  IF k = 0 \/ c > Len(s) \/ s[c] # ":" THEN 0
        ELSE LET v == json_value(s, skip(s, c + 1, Whitespace))
                 d == skip(s, v, Whitespace)
             IN  IF v = 0 \/ d > Len(s) THEN 0
                 ELSE IF s[d] = "}" THEN d + 1
                 ELSE IF s[d] = "," THEN json_members(s, skip(s, d + 1, Whitespace))
                 ELSE 0

\* json.loads(text) succeeds: one value, whitespace around it, nothing else.
json_loads_ok(text) ==
    LET e == json_value(text, skip(text, 1, Whitespace))
    IN  e # 0 /\ skip(text, e, Whitespace) = Len(text) + 1

\* str.find(c): 1-based position of the first c, 0 for -1.
find(s, c) ==
    LET ps == {k \in DOMAIN s : s[k] = c} IN IF ps = {} THEN 0 ELSE Min(ps)

\* str.rfind(c): 1-based position of the last c, 0 for -1.
rfind(s, c) ==
    LET ps == {k \in DOMAIN s : s[k] = c}
    IN  IF ps = {} THEN 0 ELSE CHOOSE k \in ps : \A m \in ps : m <= k

\* Mutant of trim_to_last_brace: the slice stops before the closing brace.
trim_before_last_brace(text, last_brace) == SubSeq(text, 1, last_brace - 1)

\* Line 45: json_text[:last_brace+1]
trim_to_last_brace(text, last_brace) == SubSeq(text, 1, last_brace)

\* The RuntimeError messages of lines 29, 34, 43 and 47.
no_output_error    == [kind |-> "raise", text |-> <<"coverage_uncovered produced no output">>]
no_json_error(raw) == [kind |-> "raise",
                       text |-> <<"coverage_uncovered did not print JSON:\n">> \o raw]
no_close_error(raw) == [kind |-> "raise",
                        text |-> <<"coverage_uncovered JSON parse failed:\n">> \o raw]
parse_error(raw)   == [kind |-> "raise",
                       text |-> <<"coverage_uncovered JSON parse failed: ", "e",
                                  "\nFull output:\n">> \o raw]

\* return json.loads(text): the document read from text.
returned(text) == [kind |-> "return", text |-> text]

JsonChars == {"{", "}", "x", " "}

MaxOutLen == 6       \* longest exhaustively enumerated wrapper output

\* Wrapper outputs with members, nesting, braces inside strings, prose
\* before and after the document.
WrapperSamples ==
    { <<"x", "x", " ", "{", "q", "x", "q", ":", "1", "}", " ">>,
      <<"x", "{", "q", "x", "q", ":", "{", "}", ",", "q", "q", ":", "1", "1", "}", "x", "x">>,
      <<"{", "q", "x", "q", ":", "q", "}", "q", "}", "x">>,
      <<"{", "q", "x", "q", ":", "q", "{", "q", "}", "}", " ", "x">>,
      <<"{", "q", "x", "q", ":", "1", ",", "}", "x">>,
      <<"{", "q", "x", "q", ":", "x", "}">>,
      <<"x", "{", "q", "x", "q", " ", ":", " ", "{", "q", "x", "q", ":", "1", "}", "}", "}">> }

WrapperOutputs == SeqsUpTo(JsonChars, MaxOutLen) \cup WrapperSamples

InitGet ==
    /\ pc = "get_uncovered"
    /\ GuIdle
    /\ RepIdle
    /\ lines = <<>> /\ ranges = <<>>
    /\ output = <<>> /\ uncovered = <<>>
    /\ source_lines = <<>> /\ i = 0 /\ funcs = <<>>
    /\ uncovered_lines = <<>> /\ mapped = <<>> /\ others = <<>> /\ out_doc = <<>>
    /\ args = <<>> /\ profdata_exists = FALSE /\ calls = <<>> /\ stdout = <<>>
    /\ ret = -1

GuRest == <<rangeVars, parseVars, findVars, attrVars, covVars, repVars>>

\* Line 25: code, out = run(cmd)
RunWrapper ==
    /\ pc = "get_uncovered"
    /\ wrapper_out' \in WrapperOutputs
    /\ pc' = "gu_ran"
    /\ UNCHANGED <<json_text, loads_calls, outcome, GuRest>>

\* Lines 28-29: no output at all.
NoOutput ==
    /\ pc = "gu_ran"
    /\ wrapper_out = <<>>
    /\ outcome' = no_output_error
    /\ pc' = "gu_done"
    /\ UNCHANGED <<wrapper_out, json_text, loads_calls, GuRest>>

\* Lines 32-34: no '{' in the output.
NoOpeningBrace ==
    /\ pc = "gu_ran"
    /\ wrapper_out # <<>>
    /\ find(wrapper_out, "{") = 0
    /\ outcome' = no_json_error(wrapper_out)
    /\ pc' = "gu_done"
    /\ UNCHANGED <<wrapper_out, json_text, loads_calls, GuRest>>

\* Lines 36-38: the text from the first '{' on parses and is returned.
FirstParseReturns ==
    /\ pc = "gu_ran"
    /\ wrapper_out # <<>>
    /\ find(wrapper_out, "{") # 0
    /\ json_text' = SubSeq(wrapper_out, find(wrapper_out, "{"), Len(wrapper_out))
    /\ json_loads_ok(json_text')
    /\ loads_calls' = loads_calls + 1
    /\ outcome' = returned(json_text')
    /\ pc' = "gu_done"
    /\ UNCHANGED <<wrapper_out, GuRest>>

\* Lines 36-39: the text from the first '{' on does not parse.
FirstParseFails ==
    /\ pc = "gu_ran"
    /\ wrapper_out # <<>>
    /\ find(wrapper_out, "{") # 0
    /\ json_text' = SubSeq(wrapper_out, find(wrapper_out, "{"), Len(wrapper_out))
    /\ ~json_loads_ok(json_text')
    /\ loads_calls' = loads_calls + 1
    /\ pc' = "gu_except"
    /\ UNCHANGED <<wrapper_out, outcome, GuRest>>

\* Lines 41-43: no '}' after the first '{'.
NoClosingBrace ==
    /\ pc = "gu_except"
    /\ rfind(json_text, "}") = 0
    /\ outcome' = no_close_error(wrapper_out)
    /\ pc' = "gu_done"
    /\ UNCHANGED <<wrapper_out, json_text, loads_calls, GuRest>>

\* Lines 44-45: the text trimmed to the last '}' parses and is returned.
RetryReturns ==
    /\ pc = "gu_except"
    /\ rfind(json_text, "}") # 0
    /\ json_loads_ok(trim_to_last_brace(json_text, rfind(json_text, "}")))
    /\ loads_calls' = loads_calls + 1
    /\ outcome' = returned(trim_to_last_brace(json_text, rfind(json_text, "}")))
    /\ pc' = "gu_done"
    /\ UNCHANGED <<wrapper_out, json_text, GuRest>>

\* Lines 44-47: the trimmed text does not parse either.
RetryFails ==
    /\ pc = "gu_except"
    /\ rfind(json_text, "}") # 0
    /\ ~json_loads_ok(trim_to_last_brace(json_text, rfind(json_text, "}")))
    /\ loads_calls' = loads_calls + 1
    /\ outcome' = parse_error(wrapper_out)
    /\ pc' = "gu_done"
    /\ UNCHANGED <<wrapper_out, json_text, GuRest>>

NextGet ==
    \/ RunWrapper
    \/ NoOutput
    \/ NoOpeningBrace
    \/ FirstParseReturns
    \/ FirstParseFails
    \/ NoClosingBrace
    \/ RetryReturns
    \/ RetryFails

SpecGet == InitGet /\ [][NextGet]_vars

\* The output from its first "{" on, and that text cut after its last "}"
\* (<<>> when the brace is missing).
FromFirstBrace(raw) ==
    IF \E k \in DOMAIN raw : raw[k] = "{"
    THEN SubSeq(raw, CHOOSE k \in DOMAIN raw :
                         raw[k] = "{" /\ \A m \in 1..(k - 1) : raw[m] # "{",
                Len(raw))
    ELSE <<>>

OutermostPair(raw) ==
    LET t == FromFirstBrace(raw)
    IN  IF \E k \in DOMAIN t : t[k] = "}"
        THEN SubSeq(t, 1, CHOOSE k \in DOMAIN t :
                              t[k] = "}" /\ \A m \in (k + 1)..Len(t) : t[m] # "}")
        ELSE <<>>

\* C11: when the text from the first "{" does not parse, get_uncovered
\* parses the outermost brace pair (first "{" through last "}") once more
\* and returns that document if it parses; json.loads is called at most
\* twice; when the retry fails or no brace pair exists it raises an error
\* whose message contains the raw output, and returns nothing.
C11_TrimRetryOnceThenRaise ==
    pc = "gu_done" =>
        LET direct == FromFirstBrace(wrapper_out)
            pair   == OutermostPair(wrapper_out)
        IN  /\ loads_calls <= 2
            /\ outcome.kind \in {"return", "raise"}
            /\ (direct # <<>> /\ json_loads_ok(direct)) =>
                   (outcome = returned(direct) /\ loads_calls = 1)
            /\ (direct # <<>> /\ ~json_loads_ok(direct) /\ pair # <<>>
                    /\ json_loads_ok(pair)) =>
                   (outcome = returned(pair) /\ loads_calls = 2)
            /\ (direct = <<>> \/ pair = <<>>
                    \/ (~json_loads_ok(direct) /\ ~json_loads_ok(pair))) =>
                   /\ outcome.kind = "raise"
                   /\ is_substring(wrapper_out, outcome.text)
                   /\ loads_calls = (IF direct = <<>> THEN 0
                                     ELSE IF pair = <<>> THEN 1 ELSE 2)

\* C11 witness: an output with prose after the document was recovered by
\* the retry.
C11_Witness ==
    /\ pc = "gu_done"
    /\ outcome.kind = "return"
    /\ loads_calls = 2
    /\ outcome.text # json_text
    /\ \E k \in DOMAIN outcome.text : outcome.text[k] = ":"

(***************************************************************************)
(* extract_report_for_file called on its own (coverage_uncovered.py:57-70).*)
(***************************************************************************)
ReportChars == {"a", "b", "1", "u3", ".", "%", "\n"}

MaxReportLen == 5    \* longest exhaustively enumerated report text

\* A report whose second and third rows both contain "a".
ReportSamples ==
    { <<"x", " ", "\n",
        "b", "a", " ", "1", "0", ".", "0", "%", " ", "u3", ".", "1", "%", "\n",
        "a", " ", "1", ".", "0", "%", "\n",
        "b", "\n">> }

ReportInputs == SeqsUpTo(ReportChars, MaxReportLen) \cup ReportOutputs \cup ReportSamples

InitRep ==
    /\ pc = "extract_report_for_file"
    /\ rep_text \in ReportInputs
    /\ rep_filename \in FileNames
    /\ extracted = NotExtracted
    /\ GuIdle
    /\ lines = <<>> /\ ranges = <<>>
    /\ output = <<>> /\ uncovered = <<>>
    /\ source_lines = <<>> /\ i = 0 /\ funcs = <<>>
    /\ uncovered_lines = <<>> /\ mapped = <<>> /\ others = <<>> /\ out_doc = <<>>
    /\ args = <<>> /\ profdata_exists = FALSE /\ calls = <<>> /\ stdout = <<>>
    /\ ret = -1

ExtractReportForFile ==
    /\ pc = "extract_report_for_file"
    /\ extracted' = extract_report_for_file(rep_text, rep_filename)
    /\ pc' = "extract_report_for_file_done"
    /\ UNCHANGED <<rep_text, rep_filename, rangeVars, parseVars, findVars,
                   attrVars, covVars, guVars>>

NextRep == ExtractReportForFile

SpecRep == InitRep /\ [][NextRep]_vars

\* A 'digits.digits%' token of ln occupies positions p..e: a run of digits
\* that starts at p, ".", a run of digits, and "%" at e.
IsPctToken(ln, p, e) ==
    /\ ln[e] = "%"
    /\ ln[p] \in Digits
    /\ p = 1 \/ ln[p - 1] \notin Digits
    /\ \E d \in (p + 1)..(e - 2) :
          /\ ln[d] = "."
          /\ \A m \in (p..(e - 1)) \ {d} : ln[m] \in Digits

\* The tokens of ln without their "%", from left to right.
RECURSIVE PctTokensFrom(_, _)
PctTokensFrom(ln, p) ==
    IF p > Len(ln) THEN <<>>
    ELSE IF \E e \in p..Len(ln) : IsPctToken(ln, p, e)
         THEN LET e == CHOOSE e \in p..Len(ln) : IsPctToken(ln, p, e)
              IN  <<SubSeq(ln, p, e - 1)>> \o PctTokensFrom(ln, p + 1)
         ELSE PctTokensFrom(ln, p + 1)

\* C12: extract_report_for_file returns the first report line containing
\* the filename, with every digits.digits% token of that line from left to
\* right and without the "%"; when no line contains it the result is the
\* not-found value (None, []).
C12_FirstMatchingLineWithPcts ==
    pc = "extract_report_for_file_done" =>
        LET ls   == splitlines(rep_text)
            hits == {k \in DOMAIN ls : is_substring(rep_filename, ls[k])}
        IN  IF hits = {}
            THEN extracted = [found |-> FALSE, line |-> <<>>, pcts |-> <<>>]
            ELSE /\ extracted.found
                 /\ extracted.line = ls[Min(hits)]
                 /\ extracted.pcts = PctTokensFrom(extracted.line, 1)

\* C12 witness: two lines contain the filename, the first has two tokens.
C12_Witness ==
    /\ pc = "extract_report_for_file_done"
    /\ Cardinality({k \in DOMAIN splitlines(rep_text) :
                       is_substring(rep_filename, splitlines(rep_text)[k])}) >= 2
    /\ extracted.found
    /\ Len(extracted.pcts) = 2

(***************************************************************************)
(* The pipeline: coverage_uncovered.py parses the annotated listing and    *)
(* prints parse_annotated's list unchanged under "uncovered_lines" (lines  *)
(* 134, 158); map_uncovered_to_functions.py reads that list back (line     *)
(* 169) and attributes it to the spans (line 175).  A list of ints is      *)
(* written as decimal numerals and read back as the same ints.             *)
(***************************************************************************)
\* Rows of a listing: line 1 uncovered, line 3 uncovered (non-ASCII digit),
\* line 10 uncovered (outside every span), line 1 covered.
PipeLines ==
    { <<"1", "|", "0", "|">>,
      <<"u3", "|", " ", "0", "|", "x">>,
      <<"1", "0", "|", "0", "|">>,
      <<"1", "|", "1", "|", "x">> }

MaxPipeLines == 3    \* most rows in a listing of the pipeline

PipeTexts == {unlines(ls) : ls \in SeqsUpTo(PipeLines, MaxPipeLines)}

InitPipe ==
    /\ pc = "pipeline"
    /\ output \in PipeTexts
    /\ funcs \in FuncLists
    /\ uncovered = <<>>
    /\ uncovered_lines = <<>> /\ mapped = <<>> /\ others = <<>> /\ out_doc = <<>>
    /\ lines = <<>> /\ ranges = <<>>
    /\ source_lines = <<>> /\ i = 0
    /\ args = <<>> /\ profdata_exists = FALSE /\ calls = <<>> /\ stdout = <<>>
    /\ ret = -1
    /\ GuIdle
    /\ RepIdle

\* coverage_uncovered.py line 134: uncovered_lines = parse_annotated(out)
PipeParse ==
    /\ pc = "pipeline"
    /\ uncovered' = parse_annotated(output)
    /\ pc' = "pipeline_parsed"
    /\ UNCHANGED <<output, rangeVars, findVars, attrVars, covVars, guVars, repVars>>

\* map_uncovered_to_functions.py lines 168-175.
PipeMap ==
    /\ pc = "pipeline_parsed"
    /\ uncovered_lines' = uncovered
    /\ mapped' = map_uncovered_to_functions(uncovered, funcs)[1]
    /\ others' = map_uncovered_to_functions(uncovered, funcs)[2]
    /\ pc' = "pipeline_mapped"
    /\ UNCHANGED <<out_doc, rangeVars, parseVars, findVars, covVars, guVars, repVars>>

NextPipe == PipeParse \/ PipeMap

SpecPipe == InitPipe /\ [][NextPipe]_vars

StrictlyAscending(s) == \A k \in 1..(Len(s) - 1) : s[k] < s[k + 1]

\* C13: in every attribution result of the pipeline, each function's
\* uncovered_lines and the unattributed list are ascending and hold no
\* line number twice, whatever the annotated text.
C13_ListsAscendingUnique ==
    pc = "pipeline_mapped" =>
        /\ \A k \in DOMAIN mapped : StrictlyAscending(mapped[k].uncovered_lines)
        /\ StrictlyAscending(others)

(***************************************************************************)
(* The tools together: each behaviour runs one of them on one input.       *)
(***************************************************************************)
Init == InitRanges \/ InitParse \/ InitFind \/ InitAttr \/ InitCov \/ InitGet \/ InitRep
          \/ InitPipe

Next == NextRanges \/ NextParse \/ NextFind \/ NextAttr \/ NextCov \/ NextGet \/ NextRep
          \/ NextPipe

Spec == Init /\ [][Next]_vars

====
